---- MODULE Spec2Model ----
(***************************************************************************)
(* BitChatRelay: a bridge between one BLE characteristic (the link) and    *)
(* the zh_network ESP-NOW mesh.  The repository holds two builds of the    *)
(* sketch:                                                                 *)
(*   "nimble"  - src/BlEPeer.ino        (NimBLE-Arduino, mirrors a write   *)
(*               back to the other clients)                                *)
(*   "classic" - src/unnamed/part_000   (ESP32 BLE library, no mirroring)  *)
(* Three execution contexts exist once the device has booted: the Arduino  *)
(* task running setup(), the BLE host task running the server and          *)
(* characteristic callbacks, and the default event-loop task running the   *)
(* zh_network event handler.  Each context runs one callback at a time;    *)
(* the contexts interleave with each other at the granularity of the       *)
(* library calls a callback makes.                                         *)
(***************************************************************************)
EXTENDS Integers, Sequences, FiniteSets, TLC

\* ------------------------------------------------------------------ bounds
MaxLen == 1          \* longest payload, in bytes
MaxByte == 2         \* byte values are 1..MaxByte
MaxClients == 2      \* connection handles are 1..MaxClients
MaxPeers == 2        \* mesh sender addresses are 1..MaxPeers
MaxWrites == 1       \* link writes in one run
MaxRecvs == 2        \* mesh receive events in one run

VARIABLES
    variant,             \* which sketch is flashed: "nimble" or "classic"
    setupPc,             \* position of the Arduino task inside setup()
    pBleServer,          \* TRUE when the pointer is non-null
    pBleService,         \* TRUE when the pointer is non-null
    pBleCharacteristic,  \* TRUE when the pointer is non-null (pCharacteristic in part_000)
    serviceStarted,      \* the service has been started
    advertising,         \* the link endpoint is advertising
    handlerRegistered,   \* the zh_network event handler is registered
    connected,           \* handles of the connected clients (getPeerDevices)
    value,               \* the characteristic's value (Channel Value)
    linkPc,              \* position of the BLE host task
    length,              \* onWrite: the local `length` / the evaluated getLength()
    dataValid,           \* onWrite: `data` still points at the bytes it was taken from
    clientHandles,       \* onWrite: handles of the loop not yet visited
    meshPc,              \* the calls the event-loop task has still to make in its handler
    pendingResults,      \* mesh sends whose send-result event has not been raised
    printed,             \* statuses written to the serial log by the send-result branch
    writes,              \* history: the link writes, [client, bytes, peers]
    mac_addr,            \* the sender address of the latest mesh receive event
    recvs,               \* history: the mesh receive events, [data, ready]
    linkLog,             \* history: the calls the link callbacks made, in order
    meshLog,             \* history: the calls the mesh event handler made, in order
    lastSet,             \* history: the payload of the latest setValue call
    sendResults          \* history: the outcomes of the mesh sends, as they became known

vars == <<variant, setupPc, pBleServer, pBleService, pBleCharacteristic,
          serviceStarted, advertising, handlerRegistered, connected, value,
          linkPc, length, dataValid, clientHandles, meshPc, pendingResults,
          printed, mac_addr, writes, recvs, linkLog, meshLog, lastSet,
          sendResults>>

setupVars == <<setupPc, pBleServer, pBleService, pBleCharacteristic,
               serviceStarted, handlerRegistered>>
linkLocals == <<length, dataValid, clientHandles>>
meshLocals == <<meshPc, mac_addr>>
history == <<writes, recvs, linkLog, meshLog, lastSet, sendResults>>

\* ------------------------------------------------------------------ data
Bytes == 1..MaxByte
Handles == 1..MaxClients
Macs == 1..MaxPeers

RECURSIVE SeqsOfLen(_)
SeqsOfLen(n) ==
    IF n = 0 THEN {<<>>}
    ELSE {Append(s, b) : s \in SeqsOfLen(n - 1), b \in Bytes}

Payloads == UNION {SeqsOfLen(n) : n \in 0..MaxLen}

\* A mesh frame carries at least one byte: zh_network_send refuses an empty
\* message, so no peer of the mesh emits one.
Frames == Payloads \ {<<>>}

Min(S) == CHOOSE x \in S : \A y \in S : x <= y

\* One call made by the bridge.  op is "send", "setValue", "notify" or
\* "free"; ctx is the handler that made it ("link" or "mesh") and id the
\* index of that handler's event in writes or recvs; target is the address
\* argument of a send; to is the set of clients a notify is delivered to;
\* bytes is the payload the call carried.
Ev(op, ctx, id, target, to, bytes) ==
    [op |-> op, ctx |-> ctx, id |-> id, target |-> target, to |-> to, bytes |-> bytes]

\* The bytes a handler obtains when it reads n bytes through `data`.  While
\* the pointer is valid these are the first n bytes of the characteristic's
\* buffer, and whatever lies behind the buffer when n exceeds its length.  A
\* read through a pointer whose storage has been released or rewritten is
\* undefined: any n bytes may come back (the original ones included).
ReadData(n) ==
    IF dataValid
    THEN {b \in SeqsOfLen(n) : \A i \in 1..n : i <= Len(value) => b[i] = value[i]}
    ELSE SeqsOfLen(n)

\* Link initialisation has finished: the characteristic exists, its service
\* has been started and advertising has been started (initBLE has reached
\* its last line, init_BLE has returned).
LinkReady ==
    /\ pBleCharacteristic
    /\ serviceStarted
    /\ setupPc \in {"initZhNetworkMesh", "done"}

\* ------------------------------------------------------------------ start
Init ==
    /\ variant \in {"nimble", "classic"}
    /\ setupPc = IF variant = "nimble" THEN "initBLE" ELSE "init_zh_network"
    /\ pBleServer = FALSE
    /\ pBleService = FALSE
    /\ pBleCharacteristic = FALSE
    /\ serviceStarted = FALSE
    /\ advertising = FALSE
    /\ handlerRegistered = FALSE
    /\ connected = {}
    /\ value = <<>>
    /\ linkPc = "idle"
    /\ length = 0
    /\ dataValid = FALSE
    /\ clientHandles = {}
    /\ meshPc = <<>>
    /\ mac_addr = 0
    /\ pendingResults = 0
    /\ printed = <<>>
    /\ writes = <<>>
    /\ recvs = <<>>
    /\ linkLog = <<>>
    /\ meshLog = <<>>
    /\ lastSet = <<>>
    /\ sendResults = <<>>

\* ------------------------------------------------------------------ setup()
\* BlEPeer.ino runs initBLE() and then initZhNetworkMesh(); part_000 runs
\* init_zh_network() and then init_BLE().

\* initBLE, createServer: a null server ends initBLE.
initBLE_createServer ==
    /\ variant = "nimble"
    /\ setupPc = "initBLE"
    /\ \E ok \in BOOLEAN :
        /\ pBleServer' = ok
        /\ setupPc' = IF ok THEN "createService" ELSE "initZhNetworkMesh"
    /\ UNCHANGED <<variant, pBleService, pBleCharacteristic, serviceStarted,
                   advertising, handlerRegistered, connected, value, linkPc,
                   linkLocals, meshLocals, pendingResults, printed, history>>

\* initBLE, createService: a null service ends initBLE.
initBLE_createService ==
    /\ variant = "nimble"
    /\ setupPc = "createService"
    /\ \E ok \in BOOLEAN :
        /\ pBleService' = ok
        /\ setupPc' = IF ok THEN "createCharacteristic" ELSE "initZhNetworkMesh"
    /\ UNCHANGED <<variant, pBleServer, pBleCharacteristic, serviceStarted,
                   advertising, handlerRegistered, connected, value, linkPc,
                   linkLocals, meshLocals, pendingResults, printed, history>>

\* initBLE without the return after a null characteristic: the service and
\* advertising are started all the same.
initBLE_createCharacteristic_noReturn ==
    /\ variant = "nimble"
    /\ setupPc = "createCharacteristic"
    /\ \E ok \in BOOLEAN : pBleCharacteristic' = ok
    /\ setupPc' = "start"
    /\ UNCHANGED <<variant, pBleServer, pBleService, serviceStarted,
                   advertising, handlerRegistered, connected, value, linkPc,
                   linkLocals, meshLocals, pendingResults, printed, history>>

\* initBLE, createCharacteristic: a null characteristic ends initBLE.
initBLE_createCharacteristic ==
    /\ variant = "nimble"
    /\ setupPc = "createCharacteristic"
    /\ \E ok \in BOOLEAN :
        /\ pBleCharacteristic' = ok
        /\ setupPc' = IF ok THEN "start" ELSE "initZhNetworkMesh"
    /\ UNCHANGED <<variant, pBleServer, pBleService, serviceStarted,
                   advertising, handlerRegistered, connected, value, linkPc,
                   linkLocals, meshLocals, pendingResults, printed, history>>

\* initBLE, pBleService->start() and pAdvertising->start().
initBLE_start ==
    /\ variant = "nimble"
    /\ setupPc = "start"
    /\ serviceStarted' = TRUE
    /\ advertising' = TRUE
    /\ setupPc' = "initZhNetworkMesh"
    /\ UNCHANGED <<variant, pBleServer, pBleService, pBleCharacteristic,
                   handlerRegistered, connected, value, linkPc,
                   linkLocals, meshLocals, pendingResults, printed, history>>

initBLE ==
    \/ initBLE_createServer
    \/ initBLE_createService
    \/ initBLE_createCharacteristic
    \/ initBLE_start

\* initZhNetworkMesh: the radio is brought up and the handler registered.
initZhNetworkMesh ==
    /\ variant = "nimble"
    /\ setupPc = "initZhNetworkMesh"
    /\ handlerRegistered' = TRUE
    /\ setupPc' = "done"
    /\ UNCHANGED <<variant, pBleServer, pBleService, pBleCharacteristic,
                   serviceStarted, advertising, connected, value, linkPc,
                   linkLocals, meshLocals, pendingResults, printed, history>>

\* init_zh_network of part_000: the handler is registered before init_BLE runs.
init_zh_network ==
    /\ variant = "classic"
    /\ setupPc = "init_zh_network"
    /\ handlerRegistered' = TRUE
    /\ setupPc' = "init_BLE"
    /\ UNCHANGED <<variant, pBleServer, pBleService, pBleCharacteristic,
                   serviceStarted, advertising, connected, value, linkPc,
                   linkLocals, meshLocals, pendingResults, printed, history>>

\* init_BLE, createServer and createService: the results are not tested.
init_BLE_createService ==
    /\ variant = "classic"
    /\ setupPc = "init_BLE"
    /\ pBleServer' = TRUE
    /\ pBleService' = TRUE
    /\ setupPc' = "createCharacteristic"
    /\ UNCHANGED <<variant, pBleCharacteristic, serviceStarted,
                   advertising, handlerRegistered, connected, value, linkPc,
                   linkLocals, meshLocals, pendingResults, printed, history>>

\* init_BLE, pCharacteristic = pService->createCharacteristic(...).
init_BLE_createCharacteristic ==
    /\ variant = "classic"
    /\ setupPc = "createCharacteristic"
    /\ pBleCharacteristic' = TRUE
    /\ setupPc' = "serviceStart"
    /\ UNCHANGED <<variant, pBleServer, pBleService, serviceStarted,
                   advertising, handlerRegistered, connected, value, linkPc,
                   linkLocals, meshLocals, pendingResults, printed, history>>

\* init_BLE, addDescriptor, setCallbacks and pService->start().
init_BLE_serviceStart ==
    /\ variant = "classic"
    /\ setupPc = "serviceStart"
    /\ serviceStarted' = TRUE
    /\ setupPc' = "advertisingStart"
    /\ UNCHANGED <<variant, pBleServer, pBleService, pBleCharacteristic,
                   advertising, handlerRegistered, connected, value, linkPc,
                   linkLocals, meshLocals, pendingResults, printed, history>>

\* init_BLE, pAdvertising->start().
init_BLE_advertisingStart ==
    /\ variant = "classic"
    /\ setupPc = "advertisingStart"
    /\ advertising' = TRUE
    /\ setupPc' = "done"
    /\ UNCHANGED <<variant, pBleServer, pBleService, pBleCharacteristic,
                   serviceStarted, handlerRegistered, connected, value, linkPc,
                   linkLocals, meshLocals, pendingResults, printed, history>>

init_BLE ==
    \/ init_BLE_createService
    \/ init_BLE_createCharacteristic
    \/ init_BLE_serviceStart
    \/ init_BLE_advertisingStart

setup == initBLE \/ initZhNetworkMesh \/ init_zh_network \/ init_BLE

\* ------------------------------------------------------------------ link: connections
\* A client completes a connection.  A connection can only be made to an
\* advertising device, and the advertisement that was answered ends with it;
\* the stack then calls ServerCallbacks::onConnect.
Connect(h) ==
    /\ linkPc = "idle"
    /\ advertising
    /\ h \notin connected
    /\ connected' = connected \cup {h}
    /\ advertising' = FALSE
    /\ linkPc' = "onConnect"
    /\ UNCHANGED <<variant, setupVars, value, linkLocals, meshLocals,
                   pendingResults, printed, history>>

\* ServerCallbacks::onConnect: BlEPeer.ino starts advertising again,
\* part_000 only logs.
onConnect ==
    /\ linkPc = "onConnect"
    /\ advertising' = IF variant = "nimble" THEN TRUE ELSE advertising
    /\ linkPc' = "idle"
    /\ UNCHANGED <<variant, setupVars, connected, value, linkLocals, meshLocals,
                   pendingResults, printed, history>>

\* A client's connection ends; the stack calls ServerCallbacks::onDisconnect.
Disconnect(h) ==
    /\ linkPc = "idle"
    /\ h \in connected
    /\ connected' = connected \ {h}
    /\ linkPc' = "onDisconnect"
    /\ UNCHANGED <<variant, setupVars, advertising, value, linkLocals, meshLocals,
                   pendingResults, printed, history>>

\* The disconnect callback only logs.
onDisconnect_noRestart ==
    /\ linkPc = "onDisconnect"
    /\ linkPc' = "idle"
    /\ UNCHANGED <<variant, setupVars, advertising, connected, value, linkLocals,
                   meshLocals, pendingResults, printed, history>>

\* ServerCallbacks::onDisconnect: both sketches start advertising.
onDisconnect ==
    /\ linkPc = "onDisconnect"
    /\ advertising' = TRUE
    /\ linkPc' = "idle"
    /\ UNCHANGED <<variant, setupVars, connected, value, linkLocals, meshLocals,
                   pendingResults, printed, history>>

\* ------------------------------------------------------------------ link: writes
\* The identity of the write being handled and of its writer.
writeId == Len(writes)
connHandle == writes[writeId].client

\* A connected client writes payload p.  The stack stores p as the
\* characteristic's value and then calls CharacteristicCallbacks::onWrite,
\* which reads it back with getValue()/getData() and getLength().  peers
\* records who was connected when the write arrived.
Write(h, p) ==
    /\ linkPc = "idle"
    /\ h \in connected
    /\ pBleCharacteristic
    /\ Len(writes) < MaxWrites
    /\ value' = p
    /\ writes' = Append(writes, [client |-> h, bytes |-> p, peers |-> connected])
    /\ linkPc' = IF variant = "nimble" THEN "w72" ELSE "c89"
    /\ UNCHANGED <<variant, setupVars, advertising, connected, linkLocals, meshLocals,
                   pendingResults, printed, sendResults, recvs, linkLog, meshLog, lastSet>>

\* BlEPeer.ino onWrite, line 72: if (pCharacteristic->getLength() > 0).
onWrite_check ==
    /\ linkPc = "w72"
    /\ linkPc' = IF Len(value) > 0 THEN "w73" ELSE "idle"
    /\ UNCHANGED <<variant, setupVars, advertising, connected, value, linkLocals,
                   meshLocals, pendingResults, printed, history>>

\* BlEPeer.ino onWrite, lines 73-74.  getValue() returns the value as a
\* temporary NimBLEAttValue; `data` is the pointer that temporary converts
\* to, and the temporary is destroyed at the end of the declaration, so
\* `data` is dangling from here on.  length is a second read of the
\* characteristic.
onWrite_read ==
    /\ linkPc = "w73"
    /\ dataValid' = FALSE
    /\ length' = Len(value)
    /\ linkPc' = "w76"
    /\ UNCHANGED <<variant, setupVars, advertising, connected, value, clientHandles,
                   meshLocals, pendingResults, printed, history>>

\* The answers zh_network_send can give to a message of n bytes: it refuses
\* an empty message and any message while the mesh is not initialised, and
\* it can refuse any other when its queue is full.  TRUE is ESP_OK.
zh_network_send(n) ==
    IF n = 0 \/ ~handlerRegistered THEN {FALSE} ELSE BOOLEAN

\* The send addressed to the peer whose frame was received last, when there
\* is one.
onWrite_send_toSender ==
    /\ linkPc = "w76"
    /\ \E b \in ReadData(length) :
        linkLog' = Append(linkLog, Ev("send", "link", writeId,
                                      IF mac_addr = 0 THEN "NULL" ELSE "mac_addr", {}, b))
    /\ \E ok \in zh_network_send(length) :
        /\ pendingResults' = IF ok THEN pendingResults + 1 ELSE pendingResults
        /\ sendResults' = IF ok THEN sendResults ELSE Append(sendResults, "REJECTED")
    /\ linkPc' = "w77"
    /\ UNCHANGED <<variant, setupVars, advertising, connected, value, linkLocals,
                   meshLocals, printed, writes, recvs, meshLog, lastSet>>

\* BlEPeer.ino onWrite, line 76: zh_network_send(NULL, data, length).  The
\* value the call returns is discarded; a message that was accepted has a
\* send-result event raised for it later.
onWrite_send ==
    /\ linkPc = "w76"
    /\ \E b \in ReadData(length) :
        linkLog' = Append(linkLog, Ev("send", "link", writeId, "NULL", {}, b))
    /\ \E ok \in zh_network_send(length) :
        /\ pendingResults' = IF ok THEN pendingResults + 1 ELSE pendingResults
        /\ sendResults' = IF ok THEN sendResults ELSE Append(sendResults, "REJECTED")
    /\ linkPc' = "w77"
    /\ UNCHANGED <<variant, setupVars, advertising, connected, value, linkLocals,
                   meshLocals, printed, writes, recvs, meshLog, lastSet>>

\* BlEPeer.ino onWrite, lines 77-78: setValue(data, length), then the
\* handles of the connected peers are fetched for the loop.
onWrite_setValue ==
    /\ linkPc = "w77"
    /\ \E b \in ReadData(length) :
        /\ value' = b
        /\ lastSet' = b
        /\ linkLog' = Append(linkLog, Ev("setValue", "link", writeId, "-", {}, b))
    /\ clientHandles' = connected
    /\ linkPc' = "w79"
    /\ UNCHANGED <<variant, setupVars, advertising, connected, length, dataValid,
                   meshLocals, pendingResults, printed, sendResults, writes, recvs, meshLog>>

\* BlEPeer.ino onWrite, lines 79-83: one iteration of the loop.  notify(handle)
\* sends the characteristic's current value to that one connection.
onWrite_notify ==
    /\ linkPc = "w79"
    /\ IF clientHandles = {}
       THEN /\ linkPc' = "idle"
                    /\ UNCHANGED <<clientHandles, linkLog>>
       ELSE LET handle == Min(clientHandles) IN
            /\ clientHandles' = clientHandles \ {handle}
            /\ linkLog' = IF handle # connHandle
                          THEN Append(linkLog, Ev("notify", "link", writeId, "-", {handle}, value))
                          ELSE linkLog
            /\ UNCHANGED linkPc
    /\ UNCHANGED <<variant, setupVars, advertising, connected, value, length, dataValid,
                   meshLocals, pendingResults, printed, sendResults, writes, recvs, meshLog, lastSet>>

\* part_000 onWrite, line 89: the arguments pChar->getData() and
\* pChar->getLength() are evaluated, in an order the compiler chooses.
\* This is the first of the two reads.
onWrite_arg1 ==
    /\ linkPc = "c89"
    /\ \/ /\ dataValid' = TRUE
          /\ linkPc' = "c89getLength"
          /\ UNCHANGED length
       \/ /\ length' = Len(value)
          /\ linkPc' = "c89getData"
          /\ UNCHANGED dataValid
    /\ UNCHANGED <<variant, setupVars, advertising, connected, value, clientHandles,
                   meshLocals, pendingResults, printed, history>>

\* part_000 onWrite, line 89: the second of the two reads.  getData() points
\* into the characteristic's own buffer.
onWrite_arg2 ==
    /\ \/ /\ linkPc = "c89getLength"
          /\ length' = Len(value)
          /\ UNCHANGED dataValid
       \/ /\ linkPc = "c89getData"
          /\ dataValid' = TRUE
          /\ UNCHANGED length
    /\ linkPc' = "c89call"
    /\ UNCHANGED <<variant, setupVars, advertising, connected, value, clientHandles,
                   meshLocals, pendingResults, printed, history>>

\* part_000 onWrite, line 89: zh_network_send(NULL, data, length) copies the
\* bytes; there is no test of the length, and the value the call returns is
\* discarded.
onWrite_call ==
    /\ linkPc = "c89call"
    /\ \E b \in ReadData(length) :
        linkLog' = Append(linkLog, Ev("send", "link", writeId, "NULL", {}, b))
    /\ \E ok \in zh_network_send(length) :
        /\ pendingResults' = IF ok THEN pendingResults + 1 ELSE pendingResults
        /\ sendResults' = IF ok THEN sendResults ELSE Append(sendResults, "REJECTED")
    /\ linkPc' = "idle"
    /\ UNCHANGED <<variant, setupVars, advertising, connected, value, linkLocals,
                   meshLocals, printed, writes, recvs, meshLog, lastSet>>

onWrite ==
    \/ onWrite_check
    \/ onWrite_read
    \/ onWrite_send
    \/ onWrite_setValue
    \/ onWrite_notify
    \/ onWrite_arg1
    \/ onWrite_arg2
    \/ onWrite_call

\* ------------------------------------------------------------------ mesh events
\* The identity and the buffer of the receive event being handled.
recvId == Len(recvs)
zhRecvData == [mac_addr |-> mac_addr, data |-> recvs[recvId].data]

\* Early return: the handler leaves without releasing the buffer when there
\* is no characteristic to update.
onRecvBody_earlyReturn(chr) ==
    IF chr THEN <<"setValue", "notify", "free">> ELSE <<>>

\* The two calls on the characteristic in the other order.
onRecvBody_notifyFirst(chr) ==
    IF chr THEN <<"notify", "setValue", "free">> ELSE <<"free">>

\* The buffer released before the characteristic is given its bytes.
onRecvBody_freeFirst(chr) ==
    IF chr THEN <<"free", "setValue", "notify">> ELSE <<"free">>

\* The calls the receive branch of the handler makes, in order, given whether
\* the characteristic pointer is non-null (BlEPeer.ino lines 101-110,
\* part_000 lines 166-173).
onRecvBody(chr) ==
    IF chr THEN <<"setValue", "notify", "free">> ELSE <<"free">>

\* ZH_NETWORK_ON_RECV_EVENT is dispatched to the registered handler with a
\* heap buffer holding q from sender mac; the handler logs and tests the
\* characteristic pointer (BlEPeer.ino line 103, part_000 line 167).  The
\* event loop dispatches one event at a time.
onRecv(mac, q) ==
    /\ meshPc = <<>>
    /\ handlerRegistered
    /\ Len(recvs) < MaxRecvs
    /\ recvs' = Append(recvs, [data |-> q, ready |-> LinkReady])
    /\ mac_addr' = mac
    /\ meshPc' = onRecvBody(pBleCharacteristic)
    /\ UNCHANGED <<variant, setupVars, advertising, connected, value, linkPc,
                   linkLocals, pendingResults, printed, sendResults, writes, linkLog, meshLog, lastSet>>

\* The value is stored only when a client is connected to be notified of it.
onRecv_setValue_ifSubscribed ==
    /\ meshPc # <<>>
    /\ Head(meshPc) = "setValue"
    /\ value' = IF connected = {} THEN value ELSE zhRecvData.data
    /\ dataValid' = FALSE
    /\ lastSet' = IF connected = {} THEN lastSet ELSE zhRecvData.data
    /\ meshLog' = Append(meshLog, Ev("setValue", "mesh", recvId, "-", {}, zhRecvData.data))
    /\ meshPc' = Tail(meshPc)
    /\ UNCHANGED <<variant, setupVars, advertising, connected, linkPc, length,
                   clientHandles, pendingResults, printed, sendResults, mac_addr,
                   writes, recvs, linkLog>>

\* setValue(zhRecvData->data, zhRecvData->data_len): the value is
\* replaced, which rewrites or reallocates the characteristic's buffer.
onRecv_setValue ==
    /\ meshPc # <<>>
    /\ Head(meshPc) = "setValue"
    /\ value' = zhRecvData.data
    /\ dataValid' = FALSE
    /\ lastSet' = zhRecvData.data
    /\ meshLog' = Append(meshLog, Ev("setValue", "mesh", recvId, "-", {}, zhRecvData.data))
    /\ meshPc' = Tail(meshPc)
    /\ UNCHANGED <<variant, setupVars, advertising, connected, linkPc, length,
                   clientHandles, pendingResults, printed, sendResults, mac_addr, writes, recvs,
                   linkLog>>

\* notify(): the characteristic's current value goes to every client
\* the stack has at this moment.
onRecv_notify ==
    /\ meshPc # <<>>
    /\ Head(meshPc) = "notify"
    /\ meshLog' = Append(meshLog, Ev("notify", "mesh", recvId, "-", connected, value))
    /\ meshPc' = Tail(meshPc)
    /\ UNCHANGED <<variant, setupVars, advertising, connected, value, linkPc,
                   linkLocals, pendingResults, printed, sendResults, mac_addr, writes, recvs,
                   linkLog, lastSet>>

\* The characteristic still refers to the buffer that is released: its
\* value is lost with it.
onRecv_free_aliased ==
    /\ meshPc # <<>>
    /\ Head(meshPc) = "free"
    /\ value' = <<>>
    /\ meshLog' = Append(meshLog, Ev("free", "mesh", recvId, "-", {}, <<>>))
    /\ meshPc' = Tail(meshPc)
    /\ UNCHANGED <<variant, setupVars, advertising, connected, linkPc,
                   linkLocals, pendingResults, printed, sendResults, mac_addr, writes, recvs,
                   linkLog, lastSet>>

\* The frame is sent on to the mesh before its buffer is released.
onRecv_free_relay ==
    /\ meshPc # <<>>
    /\ Head(meshPc) = "free"
    /\ meshLog' = Append(Append(meshLog,
                                Ev("send", "mesh", recvId, "NULL", {}, zhRecvData.data)),
                         Ev("free", "mesh", recvId, "-", {}, <<>>))
    /\ pendingResults' = pendingResults + 1
    /\ meshPc' = Tail(meshPc)
    /\ UNCHANGED <<variant, setupVars, advertising, connected, value, linkPc,
                   linkLocals, printed, sendResults, mac_addr, writes, recvs,
                   linkLog, lastSet>>

\* heap_caps_free(zhRecvData->data).
onRecv_free ==
    /\ meshPc # <<>>
    /\ Head(meshPc) = "free"
    /\ meshLog' = Append(meshLog, Ev("free", "mesh", recvId, "-", {}, <<>>))
    /\ meshPc' = Tail(meshPc)
    /\ UNCHANGED <<variant, setupVars, advertising, connected, value, linkPc,
                   linkLocals, pendingResults, printed, sendResults, mac_addr, writes, recvs,
                   linkLog, lastSet>>

\* ZH_NETWORK_ON_SEND_EVENT for an earlier zh_network_send.  part_000
\* prints the status; BlEPeer.ino has no branch for the event.
onSend(status) ==
    /\ meshPc = <<>>
    /\ handlerRegistered
    /\ pendingResults > 0
    /\ pendingResults' = pendingResults - 1
    /\ printed' = IF variant = "classic" THEN Append(printed, status) ELSE printed
    /\ sendResults' = Append(sendResults, status)
    /\ UNCHANGED <<variant, setupVars, advertising, connected, value, linkPc,
                   linkLocals, meshLocals, writes, recvs, linkLog, meshLog, lastSet>>

\* onZhNetworkEvent in BlEPeer.ino, zh_network_event_handler in part_000.
onZhNetworkEvent ==
    \/ \E mac \in Macs, q \in Frames : onRecv(mac, q)
    \/ onRecv_setValue
    \/ onRecv_notify
    \/ onRecv_free
    \/ \E status \in {"SUCCESS", "FAIL"} : onSend(status)

\* ------------------------------------------------------------------ specification
Next ==
    \/ setup
    \/ \E h \in Handles : Connect(h)
    \/ onConnect
    \/ \E h \in Handles : Disconnect(h)
    \/ onDisconnect
    \/ \E h \in Handles, p \in Payloads : Write(h, p)
    \/ onWrite
    \/ onZhNetworkEvent

Spec == Init /\ [][Next]_vars

\* ------------------------------------------------------------------ reading the histories
\* The positions of the calls `op` that the handler of event id made.
Calls(lg, op, id) == {i \in 1..Len(lg) : lg[i].op = op /\ lg[i].id = id}

\* The BLE host task is inside CharacteristicCallbacks::onWrite.
InOnWrite ==
    linkPc \in {"w72", "w73", "w76", "w77", "w79",
                "c89", "c89getLength", "c89getData", "c89call"}

\* The handler of link write w, of mesh receive event e, has returned.
WriteDone(w) == w < Len(writes) \/ ~InOnWrite
RecvDone(e) == e < Len(recvs) \/ meshPc = <<>>

\* ------------------------------------------------------------------ C1
\* C1 (as claimed): every non-empty payload P written by a link client has
\* led, once its write handler has returned, to exactly one mesh send, and
\* the bytes (hence the length) of that send are exactly P.
C1_RoundTrip ==
    \A w \in 1..Len(writes) :
        (writes[w].bytes # <<>> /\ WriteDone(w)) =>
            /\ Cardinality(Calls(linkLog, "send", w)) = 1
            /\ \A i \in Calls(linkLog, "send", w) : linkLog[i].bytes = writes[w].bytes

\* ------------------------------------------------------------------ C2
\* C2: exactly-once release.  No mesh receive event has its buffer released
\* twice, every event whose handler has returned has had it released once,
\* and so after N handled events there are exactly N releases, whether or
\* not the characteristic exists and whether or not a client is connected.
C2_ExactlyOnceRelease ==
    /\ \A e \in 1..Len(recvs) :
        /\ Cardinality(Calls(meshLog, "free", e)) <= 1
        /\ RecvDone(e) => Cardinality(Calls(meshLog, "free", e)) = 1
    /\ meshPc = <<>> =>
        Cardinality({i \in 1..Len(meshLog) : meshLog[i].op = "free"}) = Len(recvs)

\* Two events have been handled: the first while the characteristic pointer
\* was still null, the second with the characteristic set and no client
\* connected; both buffers are released.
C2_Witness ==
    /\ meshPc = <<>>
    /\ Len(recvs) = 2
    /\ Calls(meshLog, "setValue", 1) = {}
    /\ \E i \in Calls(meshLog, "notify", 2) : meshLog[i].to = {}
    /\ Cardinality({i \in 1..Len(meshLog) : meshLog[i].op = "free"}) = 2

\* ------------------------------------------------------------------ C3
\* C3 (as claimed): mesh fan-in.  A mesh receive event with payload Q that
\* arrives when the link endpoint is initialised makes one notify that goes
\* to every client connected at that moment and carries Q, and the handler
\* leaves the Channel Value equal to Q when it returns, for any sender.
C3_MeshFanIn ==
    [][ /\ (meshLog' # meshLog /\ meshLog'[Len(meshLog')].op = "notify"
                /\ recvs[recvId].ready) =>
            /\ meshLog'[Len(meshLog')].to = connected
            /\ meshLog'[Len(meshLog')].bytes = recvs[recvId].data
        /\ (meshPc # <<>> /\ meshPc' = <<>> /\ recvs[recvId].ready) =>
            /\ Cardinality(Calls(meshLog', "notify", recvId)) = 1
            /\ value' = recvs[recvId].data ]_vars

\* ------------------------------------------------------------------ C4
\* C4 (as claimed): fan-out exclusion in the mirroring sketch.  Once the
\* handler of a non-empty write of P by client C has returned, every other
\* client connected at the write has been sent exactly one notify by that
\* handler, carrying P, and C has been sent none.
C4_FanOutExclusion ==
    \A w \in 1..Len(writes) :
        (variant = "nimble" /\ writes[w].bytes # <<>> /\ WriteDone(w)) =>
            \A d \in writes[w].peers :
                LET sent == {i \in Calls(linkLog, "notify", w) : d \in linkLog[i].to} IN
                IF d = writes[w].client
                THEN sent = {}
                ELSE /\ Cardinality(sent) = 1
                     /\ \A i \in sent : linkLog[i].bytes = writes[w].bytes

\* ------------------------------------------------------------------ C5
\* C5 (as claimed): an empty write is a no-op.  The handler of a zero-length
\* write makes no call at all: no mesh send, no setValue (so it does not
\* change the Channel Value) and no notify.
C5_EmptyWriteNoOp ==
    \A w \in 1..Len(writes) :
        writes[w].bytes = <<>> =>
            {i \in 1..Len(linkLog) : linkLog[i].id = w} = {}

\* ------------------------------------------------------------------ C6
\* The payloads submitted so far, from either side.
Submitted ==
    {writes[w].bytes : w \in 1..Len(writes)} \cup {recvs[e].data : e \in 1..Len(recvs)}

\* The number of calls `op` made so far by both handlers.
Count(op) ==
    Cardinality({i \in 1..Len(linkLog) : linkLog[i].op = op})
        + Cardinality({i \in 1..Len(meshLog) : meshLog[i].op = op})

\* C6 (as claimed): concurrent safety.  Under every interleaving of the link
\* write handler and the mesh receive handler, once anything has been stored
\* the Channel Value is one of the payloads actually submitted, and there
\* are never more notify calls than setValue calls.
C6_ConcurrentSafety ==
    /\ (Len(writes) > 0 \/ Count("setValue") > 0) => value \in Submitted
    /\ Count("notify") <= Count("setValue")

\* ------------------------------------------------------------------ C7
\* C7: same-direction atomicity.  The calls of two mesh receive events are
\* never interleaved, each event sets the Channel Value before it notifies,
\* so no notify of an earlier event follows the setValue of a later one; and
\* with no link write in between, the Channel Value after the handlers have
\* returned is the payload of the event handled last.
C7_SameDirectionAtomicity ==
    /\ \A i, j \in 1..Len(meshLog) :
        i < j =>
            /\ meshLog[i].id <= meshLog[j].id
            /\ ~(meshLog[i].id = meshLog[j].id
                    /\ meshLog[i].op = "notify" /\ meshLog[j].op = "setValue")
    /\ (meshPc = <<>> /\ writes = <<>> /\ Count("setValue") > 0) =>
        value = recvs[Len(recvs)].data

\* Two events with different payloads have each set the value and notified
\* a connected client, one event after the other, and the value is the
\* second payload.
C7_Witness ==
    /\ meshPc = <<>>
    /\ writes = <<>>
    /\ Len(recvs) = 2
    /\ recvs[1].data # recvs[2].data
    /\ \E i \in Calls(meshLog, "notify", 1) : meshLog[i].to # {}
    /\ \E i \in Calls(meshLog, "notify", 2) : meshLog[i].to # {}
    /\ value = recvs[2].data

C9_ReconnectAdvertising ==
    (LinkReady /\ linkPc = "idle" /\ connected = {}) => advertising

\* In the sketch whose connect callback does not restart advertising, a
\* client has connected, written and disconnected, and the endpoint is
\* advertising again.
C9_Witness ==
    /\ variant = "classic"
    /\ LinkReady
    /\ linkPc = "idle"
    /\ connected = {}
    /\ Len(writes) = 1
    /\ advertising

\* ------------------------------------------------------------------ C10
\* C10 (as claimed): advertising survives connection.  Once link
\* initialisation has succeeded, after every connect event (the connect
\* callback has returned and clients are connected) the endpoint is
\* advertising, so a further client can connect.
C10_AdvertisingSurvivesConnection ==
    (LinkReady /\ linkPc = "idle" /\ connected # {}) => advertising
\* ------------------------------------------------------------------ C11
\* initBLE has returned early: a creation gave a null pointer, which in
\* every case leaves pBleCharacteristic null.
LinkFailed ==
    /\ setupPc \in {"initZhNetworkMesh", "done"}
    /\ ~pBleCharacteristic

\* C11: partial-failure tolerance.  When the creation of the server, the
\* service or the characteristic has failed, the link endpoint is never
\* advertising, no client is ever connected, no setValue and no notify is
\* ever made, setup still goes on to register the mesh handler, and every
\* mesh receive event whose handler has returned has had its buffer
\* released once.
C11_PartialFailureTolerance ==
    LinkFailed =>
        /\ ~advertising
        /\ ~serviceStarted
        /\ connected = {}
        /\ Count("setValue") = 0
        /\ Count("notify") = 0
        /\ setupPc = "done" => handlerRegistered
        /\ \A e \in 1..Len(recvs) :
            RecvDone(e) => Cardinality(Calls(meshLog, "free", e)) = 1

\* The server and the service were created, the characteristic was not;
\* the mesh came up and two receive events were handled and released.
C11_Witness ==
    /\ LinkFailed
    /\ pBleServer
    /\ pBleService
    /\ handlerRegistered
    /\ meshPc = <<>>
    /\ Len(recvs) = 2
    /\ Cardinality(Calls(meshLog, "free", 1)) = 1
    /\ Cardinality(Calls(meshLog, "free", 2)) = 1
\* ------------------------------------------------------------------ C12
\* The number of non-empty link writes that have arrived.
NonEmptyWrites == Cardinality({w \in 1..Len(writes) : writes[w].bytes # <<>>})

\* C12 (as claimed): no retry on send result.  A send-result event makes no
\* call and leaves the Channel Value alone; there are never more mesh sends
\* than non-empty link writes, and once the write handlers have returned
\* there are exactly as many.
C12_NoRetryOnSendResult ==
    [][ /\ pendingResults' < pendingResults =>
            /\ linkLog' = linkLog
            /\ meshLog' = meshLog
            /\ value' = value
        /\ Count("send")' <= NonEmptyWrites'
        /\ ~InOnWrite' => Count("send")' = NonEmptyWrites' ]_vars

\* ------------------------------------------------------------------ C13
\* C13 (as claimed): no silent drop on the link-to-mesh path.  Every
\* non-empty link write whose handler has returned has had its mesh send
\* issued, and, the writes being non-empty, every send that was refused at
\* the call or reported failed by a send-result event has a failure line in
\* the log.
C13_NoSilentDrop ==
    /\ \A w \in 1..Len(writes) :
        (writes[w].bytes # <<>> /\ WriteDone(w)) => Calls(linkLog, "send", w) # {}
    /\ (\A w \in 1..Len(writes) : writes[w].bytes # <<>>) =>
        Cardinality({i \in 1..Len(sendResults) : sendResults[i] # "SUCCESS"})
            <= Cardinality({i \in 1..Len(printed) : printed[i] = "FAIL"})

\* ------------------------------------------------------------------ C14
\* C14: broadcast only.  Every mesh send the bridge has issued carries a
\* null target address, and only the link write handler issues sends.
C14_BroadcastOnly ==
    /\ \A i \in 1..Len(linkLog) : linkLog[i].op = "send" => linkLog[i].target = "NULL"
    /\ \A i \in 1..Len(meshLog) : meshLog[i].op # "send"

\* A frame from peer 2 has been received and client 2 has written a
\* non-empty payload; the send of that write is a broadcast.
C14_Witness ==
    /\ mac_addr = 2
    /\ meshPc = <<>>
    /\ Len(writes) = 1
    /\ writes[1].client = 2
    /\ writes[1].bytes # <<>>
    /\ ~InOnWrite
    /\ \E i \in Calls(linkLog, "send", 1) : linkLog[i].target = "NULL"

C16_ReleaseOrdering ==
    \A i, j \in 1..Len(meshLog) :
        (meshLog[i].id = meshLog[j].id /\ meshLog[i].op = "free" /\ i # j) =>
            /\ j < i
            /\ meshLog[j].op \in {"setValue", "notify"}

\* One event has set the value, notified a connected client and then
\* released its buffer, in that order.
C16_Witness ==
    /\ Len(meshLog) = 3
    /\ meshLog[1].op = "setValue"
    /\ meshLog[2].op = "notify"
    /\ meshLog[2].to # {}
    /\ meshLog[3].op = "free"
    /\ meshLog[1].bytes = recvs[1].data

\* ------------------------------------------------------------------ C17
\* C17 (as claimed): consistent snapshot of a link write.  Whatever the mesh
\* handler does between the steps of the write handler, the bytes and the
\* length that the write handler passes to the mesh send are those of the
\* payload the client wrote.
C17_ConsistentSnapshot ==
    [][ (linkLog' # linkLog /\ linkLog'[Len(linkLog')].op = "send") =>
            /\ Len(linkLog'[Len(linkLog')].bytes) = Len(writes[writeId].bytes)
            /\ linkLog'[Len(linkLog')].bytes = writes[writeId].bytes ]_vars

\* ------------------------------------------------------------------ C18
\* C18 (as claimed): notify carries the handler's own payload across
\* directions.  In the mirroring sketch, while a link write handler with a
\* non-empty payload P and a mesh receive handler with payload Q are both
\* under way,
\* every notify made by the mesh handler carries Q and every notify made by
\* the link write handler carries P.
C18_NotifyCarriesOwnPayload ==
    [][ (variant = "nimble" /\ InOnWrite /\ writes[writeId].bytes # <<>>
                /\ meshPc # <<>>) =>
            /\ (meshLog' # meshLog /\ meshLog'[Len(meshLog')].op = "notify") =>
                meshLog'[Len(meshLog')].bytes = recvs[recvId].data
            /\ (linkLog' # linkLog /\ linkLog'[Len(linkLog')].op = "notify") =>
                linkLog'[Len(linkLog')].bytes = writes[writeId].bytes ]_vars

\* ------------------------------------------------------------------ C19
\* C19: no forwarding loop.  The mesh handler never makes a mesh send and
\* none of its steps starts or advances the link write handler; a setValue
\* or notify made by the link write handler does not start the handler
\* again; so a link write has at most one mesh send and there are never
\* more sends than link writes.
C19_NoForwardingLoop ==
    [][ /\ meshLog' # meshLog =>
            /\ meshLog'[Len(meshLog')].op # "send"
            /\ linkLog' = linkLog
            /\ writes' = writes
            /\ linkPc' = linkPc
            /\ pendingResults' = pendingResults
        /\ (linkLog' # linkLog /\ linkLog'[Len(linkLog')].op \in {"setValue", "notify"}) =>
            /\ writes' = writes
            /\ linkPc' \in {"w79", "idle"}
        /\ \A i \in 1..Len(meshLog') : meshLog'[i].op # "send"
        /\ \A w \in 1..Len(writes') : Cardinality(Calls(linkLog', "send", w)) <= 1
        /\ Count("send")' <= Len(writes') ]_vars

\* In the mirroring sketch a non-empty write has been sent once, stored and
\* mirrored to the other client, a mesh frame has been stored and notified
\* to the clients, and there is one mesh send in all.
C19_Witness ==
    /\ variant = "nimble"
    /\ Len(writes) = 1
    /\ ~InOnWrite
    /\ meshPc = <<>>
    /\ Calls(linkLog, "notify", 1) # {}
    /\ Calls(linkLog, "setValue", 1) # {}
    /\ \E i \in 1..Len(meshLog) : meshLog[i].op = "notify" /\ meshLog[i].to # {}
    /\ Count("send") = 1
    /\ pendingResults = 0

\* ------------------------------------------------------------------ C20
\* C20 (as claimed): no channel operation before the link endpoint is
\* ready.  A mesh receive event that arrived before link initialisation had
\* finished (the service started and advertising begun) makes no setValue
\* and no notify, and has had its buffer released once when its handler has
\* returned.
C20_NoChannelOpBeforeReady ==
    \A e \in 1..Len(recvs) :
        ~recvs[e].ready =>
            /\ Calls(meshLog, "setValue", e) = {}
            /\ Calls(meshLog, "notify", e) = {}
            /\ RecvDone(e) => Cardinality(Calls(meshLog, "free", e)) = 1

====
